---- MODULE Spec2Model ----
(***************************************************************************)
(* The token-rotating, rate-limit-aware fetch layer of the GitHub and      *)
(* GitLab metadata collectors:                                             *)
(*   GitHubTokenManager.get_token / rotate_token,                          *)
(*   _get_session, _handle_rate_limit, _fetch_endpoint_with_retry,         *)
(*   fetch_repository_data and process_repositories.                       *)
(*                                                                         *)
(* A unit is one entry of the list handed to process_repositories.  Each   *)
(* unit is run by one thread of the executor; the thread calls             *)
(* _fetch_endpoint_with_retry on the unit's base endpoint, the payload of  *)
(* which decides the unit's outcome.  All threads share one token manager. *)
(*                                                                         *)
(* The specifications share the variables:                                 *)
(*   Spec       process_repositories and the retry loop, get_token and     *)
(*              rotate_token taken as the atomic steps the lock makes them;*)
(*   TokenSpec  threads calling get_token and rotate_token, every          *)
(*              acquire, read, write and release a step of its own;        *)
(*   LoadSpec   GitHubTokenManager.__init__ applied to a credential source;*)
(*   GatherSpec the GitHub fetch_repository_data with the futures of its   *)
(*              inner executor, under process_repositories;                *)
(*   ExecSpec   the two thread pools, their futures counted;               *)
(*   OSFSpec    OSFMetadataFetcher.process_urls;                           *)
(*   BatchSpec  CleanOSFMetadataFetcher.process_urls_batch, interrupted    *)
(*              and resumed;                                               *)
(*   OshwaSpec  get_all_oshwa_projects.                                    *)
(*                                                                         *)
(* Input domain: the server answers with HTTP responses whose              *)
(* X-RateLimit-Remaining header, when present, is a decimal integer and    *)
(* whose 200 bodies are JSON documents; session.get raises only            *)
(* requests.exceptions.RequestException.                                   *)
(***************************************************************************)
EXTENDS Integers, Sequences, FiniteSets, TLC

\* ---------------------------------------------------------------- bounds
NumUnits == 2        \* length of the list given to process_repositories
MaxPool == 2         \* largest credential pool a run is constructed with
max_workers == 2     \* max_workers handed to the client's constructor
NumThreads == 2      \* threads calling the token manager in TokenSpec
MaxCalls == 5        \* get_token / rotate_token calls made in TokenSpec
MaxEntries == 2      \* entries (lines) of a token file in LoadSpec
NumEndpoints == 2    \* endpoints of one unit in GatherSpec, the base first
NumRequests == 6     \* endpoints of one unit in ExecSpec (the clients have 12 and 8)
NumUrls == 6         \* length of the URL list in OSFSpec and BatchSpec
MaxPages == 4        \* requests get_all_oshwa_projects makes in OshwaSpec

\* ------------------------------------------------------ program constants
max_retries == 3     \* default of _fetch_endpoint_with_retry
COOLDOWN == 60       \* time.sleep(60) of the GitLab _handle_rate_limit

Units == 1..NumUnits
Threads == 1..NumThreads
Endpoints == 1..NumEndpoints
Clients == {"github", "gitlab"}
NoToken == 0

VARIABLES
    client,          \* which of the two clients this run is
    tokens,          \* GitHubTokenManager.tokens: the pool, a sequence
    current_index,   \* GitHubTokenManager.current_index (0-based cursor)
    pc,              \* where the thread of each unit stands
    attempt,         \* loop variable of _fetch_endpoint_with_retry
    session,         \* bearer token of the session built by _get_session
    response,        \* last outcome of session.get in the running call
    retval,          \* value at the return statement of the running call
    requests,        \* history: GETs issued by the running call
    rotations,       \* history: rotate_token calls made by the running call
    errors,          \* history: RequestExceptions caught by the running call
    sleeps,          \* history: durations passed to time.sleep by the call
    base,            \* repo_data: what the base endpoint fetch returned
    future,          \* outcome of the unit's future
    results,         \* process_repositories: results, by the future appended
    records,         \* process_repositories: results, by the fields carried
    failed_repos,    \* process_repositories: failed_repos
    mainpc,          \* where process_repositories stands
    lock,            \* GitHubTokenManager.lock: 0 when free, else its holder
    tpc,             \* TokenSpec: where each thread stands in the manager
    tidx,            \* TokenSpec: the new index a rotating thread computed
    tret,            \* TokenSpec: the token get_token last returned
    calls,           \* TokenSpec history: manager calls started
    rotcalls,        \* TokenSpec history: rotate_token calls started
    cursors,         \* TokenSpec history: values the cursor has taken
    source,          \* LoadSpec: token_file and GITHUB_TOKEN given to __init__
    built,           \* LoadSpec: "no" before __init__, then "ok" or "error"
    inner,           \* GatherSpec: futures of the inner executor of a unit
    raw,             \* GatherSpec: the results dict of fetch_repository_data
    workers,         \* ExecSpec: max_workers the client was constructed with
    stage,           \* ExecSpec: where the executor has each unit
    waiting,         \* ExecSpec: inner futures of a unit not yet started
    flying,          \* ExecSpec: inner futures of a unit being run
    osf,             \* OSFSpec: locals of OSFMetadataFetcher.process_urls
    batch,           \* BatchSpec: process_urls_batch and its progress file
    oshwa            \* OshwaSpec: locals of get_all_oshwa_projects

tmvars == <<lock, tpc, tidx, tret, calls, rotcalls, cursors>>
loadvars == <<source, built>>
gathervars == <<inner, raw>>
execvars == <<workers, stage, waiting, flying>>
othervars == <<execvars, osf, batch, oshwa>>
auxvars == <<tmvars, loadvars, gathervars, othervars>>

vars == <<client, tokens, current_index, pc, attempt, session, response,
          retval, requests, rotations, errors, sleeps, base, future,
          results, records, failed_repos, mainpc, auxvars>>

callvars == <<attempt, session, response, retval, requests, rotations,
              errors, sleeps>>
batchvars == <<base, future, results, records, failed_repos, mainpc>>

\* -------------------------------------------------------------- responses
\* What one session.get can produce.  remaining is the header
\* X-RateLimit-Remaining (Absent when the header is missing), text tells
\* whether the body mentions 'rate limit exceeded', body is the kind of the
\* decoded JSON of a 200: "full" (non-empty, has a name), "noname"
\* (non-empty, no name) or "empty" (a falsy document).
Resp(st, rem, txt, bd) == [status |-> st, remaining |-> rem, text |-> txt, body |-> bd]

Absent == -1
\* session.get raised a RequestException: there is no response object
Exception == Resp(0, Absent, FALSE, "none")
\* no request made yet
NoResponse == Resp(-1, Absent, FALSE, "none")

Responses ==
    {Resp(200, 5, FALSE, b) : b \in {"full", "noname", "empty"}}
    \cup {Resp(s, 5, FALSE, "none") : s \in {404, 401, 429, 500}}
    \cup {Resp(403, r, t, "none") : r \in {Absent, 0, 5}, t \in BOOLEAN}

Outcomes == Responses \cup {Exception}

\* int(response.headers.get('X-RateLimit-Remaining', 0))
RateLimitRemaining(r) == IF r.remaining = Absent THEN 0 ELSE r.remaining

\* 2 ** attempt
RECURSIVE Pow2(_)
Pow2(n) == IF n = 0 THEN 1 ELSE 2 * Pow2(n - 1)

\* ---------------------------------------------------------- token manager
\* get_token: the token under the cursor, read under the lock
get_token == tokens[current_index + 1]

\* variant: the modulus is one too large
rotate_token_OffByOne ==
    IF Len(tokens) > 1 THEN (current_index + 1) % (Len(tokens) + 1)
    ELSE current_index

\* variant: the cursor advances by two
rotate_token_Skip ==
    IF Len(tokens) > 1 THEN (current_index + 2) % Len(tokens)
    ELSE current_index

\* variant: neither the pool-size guard nor the modulus
rotate_token_NoGuardNoWrap == current_index + 1

\* variant: the cursor is not written back
rotate_token_Stuck == current_index

\* rotate_token: a no-op for a pool of one, else one circular step, made
\* under the lock
rotate_token ==
    IF Len(tokens) > 1 THEN (current_index + 1) % Len(tokens)
    ELSE current_index

\* ------------------------------------------------------ _handle_rate_limit
\* variant: every 403 is taken for a rate limit, whatever its header and body
handle_rate_limit_Any403(c, r) ==
    IF c = "github"
    THEN IF r.status = 403 \/ r.status = 401
         THEN [retry |-> TRUE, effect |-> "rotate"]
         ELSE [retry |-> FALSE, effect |-> "none"]
    ELSE IF r.status = 429
         THEN [retry |-> TRUE, effect |-> "sleep"]
         ELSE [retry |-> FALSE, effect |-> "none"]

\* variant: the GitLab branch for 429 is missing
handle_rate_limit_No429(c, r) ==
    IF c = "github"
    THEN IF r.status = 403
         THEN IF RateLimitRemaining(r) = 0 \/ r.text
              THEN [retry |-> TRUE, effect |-> "rotate"]
              ELSE [retry |-> FALSE, effect |-> "none"]
         ELSE IF r.status = 401
              THEN [retry |-> TRUE, effect |-> "rotate"]
              ELSE [retry |-> FALSE, effect |-> "none"]
    ELSE [retry |-> FALSE, effect |-> "none"]

\* variant: the GitHub branch for 401 is missing
handle_rate_limit_NoAuth(c, r) ==
    IF c = "github"
    THEN IF r.status = 403 /\ (RateLimitRemaining(r) = 0 \/ r.text)
         THEN [retry |-> TRUE, effect |-> "rotate"]
         ELSE [retry |-> FALSE, effect |-> "none"]
    ELSE IF r.status = 429
         THEN [retry |-> TRUE, effect |-> "sleep"]
         ELSE [retry |-> FALSE, effect |-> "none"]

\* What _handle_rate_limit does with a response: whether it returns True
\* (the caller continues the loop) and which side effect it performs first.
handle_rate_limit(c, r) ==
    IF c = "github"
    THEN IF r.status = 403
         THEN IF RateLimitRemaining(r) = 0 \/ r.text
              THEN [retry |-> TRUE, effect |-> "rotate"]
              ELSE [retry |-> FALSE, effect |-> "none"]
         ELSE IF r.status = 401
              THEN [retry |-> TRUE, effect |-> "rotate"]
              ELSE [retry |-> FALSE, effect |-> "none"]
    ELSE IF r.status = 429
         THEN [retry |-> TRUE, effect |-> "sleep"]
         ELSE [retry |-> FALSE, effect |-> "none"]

\* variant: running out of attempts raises instead of returning None
LoopNext_Raise(a) == IF a + 1 < max_retries THEN "top" ELSE "raising"

\* variant: a loop that is not bounded by max_retries
LoopNext_NoCap(a) == "top"

\* Where the for loop goes when iteration a ends without a return: to the
\* next iteration, or past the loop to the final 'return None'.
LoopNext(a) == IF a + 1 < max_retries THEN "top" ELSE "returning"

\* variant: the back-off is slept after the last attempt as well
AfterException_SleepLast(a) == "backoff"

\* The except branch: sleep 2 ** attempt unless this was the last attempt.
AfterException(a) == IF a < max_retries - 1 THEN "backoff" ELSE LoopNext(a)

\* variant: a status nobody handles is retried with back-off
AfterResponse_RetryOther(c, r, a) ==
    IF r = Exception THEN AfterException(a)
    ELSE IF r.status = 200 THEN "returning"
    ELSE IF r.status = 404 THEN "returning"
    ELSE IF handle_rate_limit(c, r).retry
         THEN (IF handle_rate_limit(c, r).effect = "rotate" THEN "rotate" ELSE "cooldown")
         ELSE AfterException(a)

\* variant: 404 handled like a transient failure
AfterResponse_Retry404(c, r, a) ==
    IF r = Exception \/ r.status = 404 THEN AfterException(a)
    ELSE IF r.status = 200 THEN "returning"
    ELSE IF handle_rate_limit(c, r).retry
         THEN (IF handle_rate_limit(c, r).effect = "rotate" THEN "rotate" ELSE "cooldown")
         ELSE "returning"

\* The if/elif chain on response.status_code: the location the thread
\* moves to once session.get has produced outcome r.
AfterResponse(c, r, a) ==
    IF r = Exception THEN AfterException(a)
    ELSE IF r.status = 200 THEN "returning"
    ELSE IF r.status = 404 THEN "returning"
    ELSE IF handle_rate_limit(c, r).retry
         THEN (IF handle_rate_limit(c, r).effect = "rotate" THEN "rotate" ELSE "cooldown")
         ELSE "returning"

\* variant: an empty decoded body is returned as None
ReturnValue_Truthy(r) ==
    IF r # Exception /\ r.status = 200 /\ r.body # "empty" THEN r.body ELSE "none"

\* The value the call returns when it leaves the loop body on response r.
ReturnValue(r) == IF r # Exception /\ r.status = 200 THEN r.body ELSE "none"

\* ------------------------------------------------------ credential source
\* What __init__ is given: the kind of token_file, its entries and the
\* value of GITHUB_TOKEN (0 when unset or empty).
NoSource == [kind |-> "none", entries |-> <<>>, env |-> 0]

\* ------------------------------------------------------ units and records
\* The list handed to process_repositories: entry u has fields of its own,
\* shared with no other entry.
repositories ==
    [u \in Units |-> [owner |-> 10 + u, repo |-> 20 + u, projectID |-> 30 + u]]

\* variant: the i-th future to complete is credited to the i-th input entry
future_to_repo_ByCompletion(f) == repositories[Len(results) + Len(failed_repos) + 1]

\* future_to_repo[future]: the dict built at submission gives, for the
\* future of unit f, the repo_info it was submitted with.
future_to_repo(f) == repositories[f]

\* a field the record does not take from the input
NoField == 0
\* the name the GitLab server reports for project u
ServedName(u) == 40 + u

\* What process_repositories appends for the future of unit u.  GitHub:
\* the record _structure_repository_data built from the owner and repo the
\* future was submitted with, to which projectID of future_to_repo[future]
\* is attached.  GitLab: the record built from the payloads alone.
Record(c, u) ==
    IF c = "github"
    THEN [owner |-> repositories[u].owner,
          name |-> repositories[u].repo,
          projectID |-> future_to_repo(u).projectID]
    ELSE [owner |-> NoField, name |-> ServedName(u), projectID |-> NoField]

\* An inner future: not yet done, or done with the value its call of
\* _fetch_endpoint_with_retry returned (a payload or None) or with the
\* exception it raised; seen once as_completed has yielded it.
Pending == -2
Raised == -3
NonePayload == 0
Unset == -1
NotSubmitted == [result |-> Pending, seen |-> FALSE]
\* the document the server holds at endpoint e of unit u
Payload(u, e) == 100 * u + e

\* ------------------------------------------------------------------- Init
\* the executor, the OSF fetchers and the OSHWA pager before they are used
ExecRest ==
    /\ workers = max_workers
    /\ stage = [u \in Units |-> "queued"]
    /\ waiting = [u \in Units |-> 0]
    /\ flying = [u \in Units |-> 0]

OSFRest == osf = [pc |-> "idle", i |-> 0, attempt |-> 0, results |-> <<>>,
                  waits |-> <<>>, last |-> 0, checkpoint |-> 0]

BatchRest == batch = [pc |-> "idle", run |-> 0, start_index |-> 0, i |-> 0,
                      results |-> <<>>, saved |-> FALSE, file |-> <<>>]

OshwaRest == oshwa = [pc |-> "idle", offset |-> 0, all_projects |-> <<>>,
                      requests |-> 0, status |-> 0, items |-> 0, total |-> 0,
                      honest |-> TRUE, held |-> 0]

\* the two clients and their token manager, constructed and not yet used
FetchRest ==
    /\ client \in Clients
    /\ \E n \in 1..MaxPool : tokens = [i \in 1..n |-> i]
    /\ current_index = 0
    /\ pc = [u \in Units |-> "queued"]
    /\ attempt = [u \in Units |-> 0]
    /\ session = [u \in Units |-> NoToken]
    /\ response = [u \in Units |-> NoResponse]
    /\ retval = [u \in Units |-> "none"]
    /\ requests = [u \in Units |-> 0]
    /\ rotations = [u \in Units |-> 0]
    /\ errors = [u \in Units |-> 0]
    /\ sleeps = [u \in Units |-> <<>>]
    /\ base = [u \in Units |-> "none"]
    /\ future = [u \in Units |-> "pending"]
    /\ results = <<>>
    /\ records = <<>>
    /\ failed_repos = <<>>
    /\ mainpc = "collecting"
    /\ lock = 0
    /\ tpc = [t \in Threads |-> "idle"]
    /\ tidx = [t \in Threads |-> 0]
    /\ tret = [t \in Threads |-> NoToken]
    /\ calls = 0
    /\ rotcalls = 0
    /\ cursors = <<0>>
    /\ source = NoSource
    /\ built = "ok"
    /\ inner = [u \in Units |-> [e \in Endpoints |-> NotSubmitted]]
    /\ raw = [u \in Units |-> [e \in Endpoints |-> Unset]]

Init ==
    /\ FetchRest
    /\ ExecRest
    /\ OSFRest
    /\ BatchRest
    /\ OshwaRest

\* ---------------------------------------------------------------- actions
Running == {u \in Units : pc[u] \notin {"queued", "finished", "collected"}}

\* The executor hands the next queued unit to a free worker thread, which
\* enters fetch_repository_data and the first iteration of the retry loop.
Start(u) ==
    /\ pc[u] = "queued"
    /\ \A v \in Units : v < u => pc[v] # "queued"
    /\ Cardinality(Running) < max_workers
    /\ pc' = [pc EXCEPT ![u] = "top"]
    /\ UNCHANGED <<client, tokens, current_index, callvars, batchvars>>
    /\ UNCHANGED auxvars

\* session = self._get_session(): a session carrying the current token
GetSession(u) ==
    /\ pc[u] = "top"
    /\ session' = [session EXCEPT ![u] = get_token]
    /\ pc' = [pc EXCEPT ![u] = "get"]
    /\ UNCHANGED <<client, tokens, current_index, attempt, response, retval,
                   requests, rotations, errors, sleeps, batchvars>>
    /\ UNCHANGED auxvars

\* response = session.get(endpoint, timeout=30) and the status dispatch.
\* The session is followed up to the next _get_session only when the
\* response makes the call rotate; on every other path it is dropped here.
Get(u, r) ==
    /\ pc[u] = "get"
    /\ requests' = [requests EXCEPT ![u] = @ + 1]
    /\ response' = [response EXCEPT ![u] = r]
    /\ session' = [session EXCEPT ![u] =
                      IF AfterResponse(client, r, attempt[u]) = "rotate" THEN @ ELSE NoToken]
    /\ errors' = [errors EXCEPT ![u] = IF r = Exception THEN @ + 1 ELSE @]
    /\ LET nxt == AfterResponse(client, r, attempt[u]) IN
        /\ pc' = [pc EXCEPT ![u] = nxt]
        /\ retval' = [retval EXCEPT ![u] = IF nxt = "returning" THEN ReturnValue(r) ELSE @]
        /\ attempt' = [attempt EXCEPT ![u] =
                          IF r = Exception /\ nxt # "backoff" THEN @ + 1 ELSE @]
    /\ UNCHANGED <<client, tokens, current_index, rotations, sleeps, batchvars>>
    /\ UNCHANGED auxvars

\* self.token_manager.rotate_token(); return True; continue
Rotate(u) ==
    /\ pc[u] = "rotate"
    /\ current_index' = rotate_token
    /\ rotations' = [rotations EXCEPT ![u] = @ + 1]
    /\ attempt' = [attempt EXCEPT ![u] = @ + 1]
    /\ pc' = [pc EXCEPT ![u] = LoopNext(attempt[u])]
    /\ session' = [session EXCEPT ![u] =
                      IF LoopNext(attempt[u]) = "top" THEN @ ELSE NoToken]
    /\ UNCHANGED <<client, tokens, response, retval, requests,
                   errors, sleeps, batchvars>>
    /\ UNCHANGED auxvars

\* time.sleep(60); return True; continue
Cooldown(u) ==
    /\ pc[u] = "cooldown"
    /\ sleeps' = [sleeps EXCEPT ![u] = Append(@, COOLDOWN)]
    /\ attempt' = [attempt EXCEPT ![u] = @ + 1]
    /\ pc' = [pc EXCEPT ![u] = LoopNext(attempt[u])]
    /\ UNCHANGED <<client, tokens, current_index, session, response, retval,
                   requests, rotations, errors, batchvars>>
    /\ UNCHANGED auxvars

\* time.sleep(2 ** attempt), then the next iteration
Backoff(u) ==
    /\ pc[u] = "backoff"
    /\ sleeps' = [sleeps EXCEPT ![u] = Append(@, Pow2(attempt[u]))]
    /\ attempt' = [attempt EXCEPT ![u] = @ + 1]
    /\ pc' = [pc EXCEPT ![u] = LoopNext(attempt[u])]
    /\ UNCHANGED <<client, tokens, current_index, session, response, retval,
                   requests, rotations, errors, batchvars>>
    /\ UNCHANGED auxvars

\* The call returns to fetch_repository_data and its frame is dropped.
\* GitHub: 'if not repo_data: return {}' ends the unit at once; otherwise
\* the unit goes on to the endpoints fetched by its inner executor.
\* GitLab: the base endpoint is one of the endpoints of the inner executor,
\* and the unit goes on whatever the call returned.
\* variant: the guard 'if not repo_data' is missing
Truthy_Always(b) == TRUE

Truthy(b) == b \in {"full", "noname"}

\* What fetch_repository_data holds for the base endpoint once the call is
\* back: the value returned, the None of a 404 being told apart from the
\* None of every other ending as "absent".
BaseOutcome(r, v) == IF r.status = 404 THEN "absent" ELSE v

Return(u) ==
    /\ pc[u] = "returning"
    /\ base' = [base EXCEPT ![u] = BaseOutcome(response[u], retval[u])]
    /\ IF client = "github" /\ ~Truthy(retval[u])
       THEN /\ pc' = [pc EXCEPT ![u] = "finished"]
            /\ future' = [future EXCEPT ![u] = "empty"]
       ELSE /\ pc' = [pc EXCEPT ![u] = "secondary"]
            /\ UNCHANGED future
    /\ attempt' = [attempt EXCEPT ![u] = 0]
    /\ response' = [response EXCEPT ![u] = NoResponse]
    /\ retval' = [retval EXCEPT ![u] = "none"]
    /\ requests' = [requests EXCEPT ![u] = 0]
    /\ rotations' = [rotations EXCEPT ![u] = 0]
    /\ errors' = [errors EXCEPT ![u] = 0]
    /\ sleeps' = [sleeps EXCEPT ![u] = <<>>]
    /\ UNCHANGED <<client, tokens, current_index, session, results, records,
                   failed_repos, mainpc>>
    /\ UNCHANGED auxvars

\* While the inner executor of a GitHub unit fetches the other endpoints,
\* each of its calls that meets a 401 or a rate-limit 403 rotates the
\* shared cursor.  (The GitLab client never calls rotate_token.)
SecondaryRotate(u) ==
    /\ pc[u] = "secondary"
    /\ client = "github"
    /\ Len(tokens) > 1
    /\ current_index' = rotate_token
    /\ UNCHANGED <<client, tokens, pc, callvars, batchvars>>
    /\ UNCHANGED auxvars

\* repository.name of the structured record: the GitHub client copies the
\* repo argument, the GitLab client reads repo_data.get("name", "").
HasName(c, b) == IF c = "github" THEN TRUE ELSE b = "full"

\* _structure_repository_data builds the record from the payloads; it
\* raises when a payload has a shape it cannot digest (ok = FALSE), and the
\* exception becomes the outcome of the unit's future.  The frame of
\* fetch_repository_data, its executor and its results dict go with it.
Structure(u, ok) ==
    /\ pc[u] = "secondary"
    /\ future' = [future EXCEPT ![u] =
                     IF ~ok THEN "raised"
                     ELSE IF HasName(client, base[u]) THEN "named" ELSE "unnamed"]
    /\ pc' = [pc EXCEPT ![u] = "finished"]
    /\ UNCHANGED <<client, tokens, current_index, callvars, base, results, records,
                   failed_repos, mainpc>>
    /\ inner' = [inner EXCEPT ![u] = [e \in Endpoints |-> NotSubmitted]]
    /\ raw' = [raw EXCEPT ![u] = [e \in Endpoints |-> Unset]]
    /\ UNCHANGED <<tmvars, loadvars, othervars>>

\* variant: only a raised future counts as a failure
Succeeded_NotRaised(f) == f # "raised"

\* 'repo_data and repo_data.get("repository", {}).get("name")', with the
\* except branch for a future that raised
Succeeded(f) == f = "named"

\* One turn of the as_completed loop of process_repositories: a finished
\* future, whichever it is, is appended to results or to failed_repos.
Collect(u) ==
    /\ mainpc = "collecting"
    /\ pc[u] = "finished"
    /\ IF Succeeded(future[u])
       THEN /\ results' = Append(results, u)
            /\ records' = Append(records, Record(client, u))
            /\ UNCHANGED failed_repos
       ELSE /\ failed_repos' = Append(failed_repos, u)
            /\ UNCHANGED <<results, records>>
    /\ pc' = [pc EXCEPT ![u] = "collected"]
    /\ UNCHANGED <<client, tokens, current_index, callvars, base, future, mainpc>>
    /\ UNCHANGED auxvars

\* as_completed is exhausted: process_repositories returns results
ReturnBatch ==
    /\ mainpc = "collecting"
    /\ \A u \in Units : pc[u] = "collected"
    /\ mainpc' = "returned"
    /\ UNCHANGED <<client, tokens, current_index, pc, callvars, base, future,
                   results, records, failed_repos>>
    /\ UNCHANGED auxvars

Next ==
    \/ \E u \in Units : Start(u)
    \/ \E u \in Units : GetSession(u)
    \/ \E u \in Units : \E r \in Outcomes : Get(u, r)
    \/ \E u \in Units : Rotate(u)
    \/ \E u \in Units : Cooldown(u)
    \/ \E u \in Units : Backoff(u)
    \/ \E u \in Units : Return(u)
    \/ \E u \in Units : SecondaryRotate(u)
    \/ \E u \in Units : \E ok \in BOOLEAN : Structure(u, ok)
    \/ \E u \in Units : Collect(u)
    \/ ReturnBatch

Spec == Init /\ [][Next]_vars

\* ============================================================== TokenSpec
\* Threads call get_token and rotate_token of one constructed manager in
\* any interleaving; each acquire, read, write and release of the two
\* methods is a step of its own.
fetchvars == <<client, pc, callvars, batchvars>>

\* variant: 'with self.lock' is missing, nothing is waited for
LockFree_NoLock == TRUE

\* 'with self.lock' can be entered only while nobody holds the lock
LockFree == lock = 0

\* a thread calls get_token
CallGet(t) ==
    /\ tpc[t] = "idle"
    /\ calls < MaxCalls
    /\ calls' = calls + 1
    /\ tpc' = [tpc EXCEPT ![t] = "g_acquire"]
    /\ UNCHANGED <<tokens, current_index, fetchvars, lock, tidx, tret,
                   rotcalls, cursors, loadvars, gathervars, othervars>>

\* get_token: with self.lock
GetAcquire(t) ==
    /\ tpc[t] = "g_acquire"
    /\ LockFree
    /\ lock' = t
    /\ tpc' = [tpc EXCEPT ![t] = "g_read"]
    /\ UNCHANGED <<tokens, current_index, fetchvars, tidx, tret, calls,
                   rotcalls, cursors, loadvars, gathervars, othervars>>

\* get_token: token = self.tokens[self.current_index]
GetRead(t) ==
    /\ tpc[t] = "g_read"
    /\ tret' = [tret EXCEPT ![t] = get_token]
    /\ tpc' = [tpc EXCEPT ![t] = "g_release"]
    /\ UNCHANGED <<tokens, current_index, fetchvars, lock, tidx, calls,
                   rotcalls, cursors, loadvars, gathervars, othervars>>

\* get_token: return token, leaving the with block
GetRelease(t) ==
    /\ tpc[t] = "g_release"
    /\ lock' = 0
    /\ tpc' = [tpc EXCEPT ![t] = "idle"]
    /\ UNCHANGED <<tokens, current_index, fetchvars, tidx, tret, calls,
                   rotcalls, cursors, loadvars, gathervars, othervars>>

\* a thread calls rotate_token: 'if len(self.tokens) > 1' is tested
\* outside the lock, and a pool of one returns at once
CallRotate(t) ==
    /\ tpc[t] = "idle"
    /\ calls < MaxCalls
    /\ calls' = calls + 1
    /\ rotcalls' = rotcalls + 1
    /\ tpc' = [tpc EXCEPT ![t] = IF Len(tokens) > 1 THEN "r_acquire" ELSE "idle"]
    /\ UNCHANGED <<tokens, current_index, fetchvars, lock, tidx, tret,
                   cursors, loadvars, gathervars, othervars>>

\* rotate_token: with self.lock
RotAcquire(t) ==
    /\ tpc[t] = "r_acquire"
    /\ LockFree
    /\ lock' = t
    /\ tpc' = [tpc EXCEPT ![t] = "r_read"]
    /\ UNCHANGED <<tokens, current_index, fetchvars, tidx, tret, calls,
                   rotcalls, cursors, loadvars, gathervars, othervars>>

\* rotate_token: the right-hand side (self.current_index + 1) % len(self.tokens)
RotRead(t) ==
    /\ tpc[t] = "r_read"
    /\ tidx' = [tidx EXCEPT ![t] = rotate_token]
    /\ tpc' = [tpc EXCEPT ![t] = "r_write"]
    /\ UNCHANGED <<tokens, current_index, fetchvars, lock, tret, calls,
                   rotcalls, cursors, loadvars, gathervars, othervars>>

\* rotate_token: the assignment to self.current_index
RotWrite(t) ==
    /\ tpc[t] = "r_write"
    /\ current_index' = tidx[t]
    /\ cursors' = Append(cursors, tidx[t])
    /\ tpc' = [tpc EXCEPT ![t] = "r_release"]
    /\ UNCHANGED <<tokens, fetchvars, lock, tidx, tret, calls, rotcalls,
                   loadvars, gathervars, othervars>>

\* rotate_token: the print, then the with block is left
RotRelease(t) ==
    /\ tpc[t] = "r_release"
    /\ lock' = 0
    /\ tpc' = [tpc EXCEPT ![t] = "idle"]
    /\ UNCHANGED <<tokens, current_index, fetchvars, tidx, tret, calls,
                   rotcalls, cursors, loadvars, gathervars, othervars>>

TokenNext ==
    \/ \E t \in Threads : CallGet(t)
    \/ \E t \in Threads : GetAcquire(t)
    \/ \E t \in Threads : GetRead(t)
    \/ \E t \in Threads : GetRelease(t)
    \/ \E t \in Threads : CallRotate(t)
    \/ \E t \in Threads : RotAcquire(t)
    \/ \E t \in Threads : RotRead(t)
    \/ \E t \in Threads : RotWrite(t)
    \/ \E t \in Threads : RotRelease(t)

TokenSpec == Init /\ [][TokenNext]_vars

\* ------------------------------------------------ token manager: loading
\* __init__ and _load_tokens.  A token file is a sequence of entries: the
\* lines of a text file, or the values of the 'tokens' mapping of a YAML
\* file in document order.  The token of entry i is named i; the value of
\* GITHUB_TOKEN is named EnvToken; line i of a file that is read as raw
\* text after a YAML error is named RawLine + i.  Dates are days relative
\* to the day of loading.
Today == 0
EnvToken == 99
RawLine == 100
Days == {-1, 0, 1}

\* expiration_date as user_data.get returns it: missing or null; a string
\* in the form '%Y-%m-%d'; a string in another form; or a date object,
\* which is what yaml.safe_load makes of an unquoted 2020-01-01.
NoExpiration == [type |-> "none", wellformed |-> TRUE, day |-> 0]
Expirations ==
    {NoExpiration}
        \cup {[type |-> "str", wellformed |-> TRUE, day |-> d] : d \in Days}
        \cup {[type |-> "str", wellformed |-> FALSE, day |-> -1]}
        \cup {[type |-> "date", wellformed |-> TRUE, day |-> d] : d \in {-1, 1}}

\* An entry: a blank line or a mapping without a usable 'token'; a comment
\* line; a token (with its expiration_date, which only YAML reads); or a
\* YAML value that is not a mapping.
Entry(sh, e) == [shape |-> sh, expiration |-> e]
Entries ==
    {Entry(sh, NoExpiration) : sh \in {"blank", "comment", "notmap"}}
        \cup {Entry("token", e) : e \in Expirations}

FileKinds == {"text", "yaml", "yaml_broken"}
EmptyKinds == {"yaml_nokey", "yaml_null", "unreadable"}

\* token_file and the environment: kind "none" is no token_file or a path
\* that does not exist.
Sources ==
    {[NoSource EXCEPT !.env = e] : e \in {0, EnvToken}}
        \cup {[kind |-> k, entries |-> <<>>, env |-> e] :
                 k \in EmptyKinds, e \in {0, EnvToken}}
        \cup UNION {{[kind |-> k, entries |-> es, env |-> e] :
                        k \in FileKinds, e \in {0, EnvToken},
                        es \in [1..n -> Entries]} : n \in 0..MaxEntries}

\* _is_token_valid: no date is valid; a date strptime parses is valid when
\* it lies after today; whatever makes strptime raise is valid.
is_token_valid(e) ==
    IF e.type = "none" THEN TRUE
    ELSE IF e.type = "str" /\ e.wellformed THEN e.day > Today
    ELSE TRUE

\* the loop over data['tokens'].values(): an entry that is not a mapping
\* raises in user_data.get, which ends the loop with the tokens gathered
\* so far (except Exception, then return tokens).
RECURSIVE load_yaml(_, _)
load_yaml(es, i) ==
    IF i > Len(es) THEN <<>>
    ELSE IF es[i].shape = "notmap" THEN <<>>
    ELSE IF es[i].shape = "comment" THEN load_yaml(es, i + 1)
    ELSE (IF es[i].shape = "token" /\ is_token_valid(es[i].expiration)
          THEN <<i>> ELSE <<>>) \o load_yaml(es, i + 1)

\* the loop over the lines of a file: every stripped line that is neither
\* empty nor a comment is a token.
RECURSIVE load_lines(_, _, _)
load_lines(es, i, name) ==
    IF i > Len(es) THEN <<>>
    ELSE (IF es[i].shape \notin {"blank", "comment"}
          THEN <<name + i>> ELSE <<>>) \o load_lines(es, i + 1, name)

\* _load_tokens
load_tokens(s) ==
    IF s.kind = "yaml" THEN load_yaml(s.entries, 1)
    ELSE IF s.kind = "text" THEN load_lines(s.entries, 1, 0)
    ELSE IF s.kind = "yaml_broken" THEN load_lines(s.entries, 1, RawLine)
    ELSE <<>>

\* __init__: 'if not token: raise ValueError("No GitHub token provided...")'
NoTokenProvided(s) == s.kind = "none" /\ s.env = 0

\* __init__: 'if not self.tokens: raise ValueError("No valid tokens found")'
NoValidTokens_Unchecked(p) == FALSE
NoValidTokens(p) == p = <<>>

\* self.tokens as __init__ assigns it
Pool(s) ==
    IF s.kind # "none" THEN load_tokens(s)
    ELSE IF NoTokenProvided(s) THEN <<>>
    ELSE <<s.env>>

LoadInit ==
    /\ client \in Clients
    /\ tokens = <<>>
    /\ current_index = 0
    /\ pc = [u \in Units |-> "queued"]
    /\ attempt = [u \in Units |-> 0]
    /\ session = [u \in Units |-> NoToken]
    /\ response = [u \in Units |-> NoResponse]
    /\ retval = [u \in Units |-> "none"]
    /\ requests = [u \in Units |-> 0]
    /\ rotations = [u \in Units |-> 0]
    /\ errors = [u \in Units |-> 0]
    /\ sleeps = [u \in Units |-> <<>>]
    /\ base = [u \in Units |-> "none"]
    /\ future = [u \in Units |-> "pending"]
    /\ results = <<>>
    /\ records = <<>>
    /\ failed_repos = <<>>
    /\ mainpc = "collecting"
    /\ lock = 0
    /\ tpc = [t \in Threads |-> "idle"]
    /\ tidx = [t \in Threads |-> 0]
    /\ tret = [t \in Threads |-> NoToken]
    /\ calls = 0
    /\ rotcalls = 0
    /\ cursors = <<0>>
    /\ source \in Sources
    /\ built = "no"
    /\ inner = [u \in Units |-> [e \in Endpoints |-> NotSubmitted]]
    /\ raw = [u \in Units |-> [e \in Endpoints |-> Unset]]
    /\ ExecRest
    /\ OSFRest
    /\ BatchRest
    /\ OshwaRest

\* GitHubTokenManager(token_file): the whole of __init__
Construct ==
    /\ built = "no"
    /\ tokens' = Pool(source)
    /\ built' = IF NoTokenProvided(source) \/ NoValidTokens(Pool(source))
                THEN "error" ELSE "ok"
    /\ UNCHANGED <<current_index, fetchvars, tmvars, source, gathervars, othervars>>

\* _get_session on the constructed manager: the token a request is sent
\* with (an empty pool raises IndexError and sends nothing)
UseToken(t) ==
    /\ built = "ok"
    /\ Len(tokens) >= 1
    /\ tret' = [tret EXCEPT ![t] = get_token]
    /\ UNCHANGED <<tokens, current_index, fetchvars, lock, tpc, tidx, calls,
                   rotcalls, cursors, loadvars, gathervars, othervars>>

\* rotate_token on the constructed manager
Advance ==
    /\ built = "ok"
    /\ Len(tokens) >= 1
    /\ current_index' = rotate_token
    /\ UNCHANGED <<tokens, fetchvars, tmvars, loadvars, gathervars, othervars>>

LoadNext ==
    \/ Construct
    \/ \E t \in Threads : UseToken(t)
    \/ Advance

LoadSpec == LoadInit /\ [][LoadNext]_vars

\* ---------------------------------------------------- fetch_repository_data
\* The GitHub fetch_repository_data, one step per future of its inner
\* executor.  The call on the base endpoint that precedes the executor is
\* one step here (Spec has its retry loop), with the payload it returned.
GatherInit == Init /\ client = "github"

\* variant: the i-th future to complete is stored under the i-th endpoint
future_to_endpoint_ByCompletion(u, e) ==
    Cardinality({x \in Endpoints : inner[u][x].seen}) + 1

\* future_to_endpoint[future]: the endpoint the future was submitted with
future_to_endpoint(u, e) == e

\* A worker thread takes unit u, fetches the base endpoint and, unless the
\* payload is falsy, sets results = {base_url: repo_data} and submits one
\* future per endpoint, the base endpoint among them.
Begin(u, b) ==
    /\ pc[u] = "queued"
    /\ \A v \in Units : v < u => pc[v] # "queued"
    /\ Cardinality(Running) < max_workers
    /\ base' = [base EXCEPT ![u] = b]
    /\ IF Truthy(b)
       THEN /\ pc' = [pc EXCEPT ![u] = "secondary"]
            /\ raw' = [raw EXCEPT ![u] =
                          [e \in Endpoints |-> IF e = 1 THEN Payload(u, 1) ELSE Unset]]
            /\ UNCHANGED future
       ELSE /\ pc' = [pc EXCEPT ![u] = "finished"]
            /\ future' = [future EXCEPT ![u] = "empty"]
            /\ UNCHANGED raw
    /\ UNCHANGED <<client, tokens, current_index, callvars, results, records,
                   failed_repos, mainpc, tmvars, loadvars, inner, othervars>>

\* The call of _fetch_endpoint_with_retry behind the future of endpoint e
\* ends: it returns the payload of its own endpoint or None, or raises.
Fetched(u, e, v) ==
    /\ pc[u] = "secondary"
    /\ inner[u][e].result = Pending
    /\ v \in {Payload(u, e), NonePayload, Raised}
    /\ inner' = [inner EXCEPT ![u][e].result = v]
    /\ UNCHANGED <<tokens, current_index, fetchvars, tmvars, loadvars, raw, othervars>>

\* One turn of the as_completed loop of fetch_repository_data:
\* results[endpoint] = future.result(), or None when the future raised.
Store(u, e) ==
    /\ pc[u] = "secondary"
    /\ inner[u][e].result # Pending
    /\ ~inner[u][e].seen
    /\ raw' = [raw EXCEPT ![u][future_to_endpoint(u, e)] =
                  IF inner[u][e].result = Raised THEN NonePayload
                  ELSE inner[u][e].result]
    /\ inner' = [inner EXCEPT ![u][e].seen = TRUE]
    /\ UNCHANGED <<tokens, current_index, fetchvars, tmvars, loadvars, othervars>>

\* variant: the with block waits for the futures of every unit
Gathered_AllUnits(u) == \A v \in Units : \A e \in Endpoints : inner[v][e].seen

\* as_completed is exhausted and the with block is left:
\* return self._structure_repository_data(results, owner, repo)
Gathered(u) == \A e \in Endpoints : inner[u][e].seen

StructureGathered(u, ok) == Gathered(u) /\ Structure(u, ok)

GatherNext ==
    \/ \E u \in Units : \E b \in {"full", "none"} : Begin(u, b)
    \/ \E u \in Units : \E e \in Endpoints :
          \E v \in {Payload(u, e), NonePayload, Raised} : Fetched(u, e, v)
    \/ \E u \in Units : \E e \in Endpoints : Store(u, e)
    \/ \E u \in Units : \E ok \in BOOLEAN : StructureGathered(u, ok)
    \/ \E u \in Units : Collect(u)
    \/ ReturnBatch

GatherSpec == GatherInit /\ [][GatherNext]_vars

\* The same under fair scheduling: a thread that can take a step is not
\* held back forever, and every call of _fetch_endpoint_with_retry comes
\* back (each GET returns or raises within its timeout and the loop makes
\* at most max_retries of them).
FairGatherSpec == GatherSpec /\ WF_vars(GatherNext)

\* ------------------------------------------------------------ the executors
\* ThreadPoolExecutor(max_workers=self.max_workers) of process_repositories
\* and ThreadPoolExecutor(max_workers=min(len(endpoints), 5)) of
\* fetch_repository_data, the futures of a unit counted and not told apart.
\* A thread of either executor runs one call at a time, and a call of
\* _fetch_endpoint_with_retry has at most one GET outstanding.
INNER_CAP == 5

Min(a, b) == IF a < b THEN a ELSE b

\* variant: one inner thread per endpoint
inner_workers_PerEndpoint(n) == n

\* min(len(endpoints), 5)
inner_workers(n) == Min(n, INNER_CAP)

ExecInit ==
    /\ FetchRest
    /\ workers \in 1..max_workers
    /\ stage = [u \in Units |-> "queued"]
    /\ waiting = [u \in Units |-> 0]
    /\ flying = [u \in Units |-> 0]
    /\ OSFRest
    /\ BatchRest
    /\ OshwaRest

Active == {u \in Units : stage[u] \in {"base", "inner"}}

\* A free thread of the outer executor takes the next unit.  The GitHub
\* fetch_repository_data first fetches the base endpoint in that thread;
\* the GitLab one submits all its endpoints at once.
Run(u) ==
    /\ stage[u] = "queued"
    /\ \A v \in Units : v < u => stage[v] # "queued"
    /\ Cardinality(Active) < workers
    /\ IF client = "github"
       THEN /\ stage' = [stage EXCEPT ![u] = "base"]
            /\ UNCHANGED waiting
       ELSE /\ stage' = [stage EXCEPT ![u] = "inner"]
            /\ waiting' = [waiting EXCEPT ![u] = NumRequests]
    /\ UNCHANGED <<tokens, current_index, fetchvars, tmvars, loadvars,
                   gathervars, workers, flying, osf, batch, oshwa>>

\* GitHub: the base fetch is back; with a payload the endpoints are
\* submitted to the inner executor, without one the unit returns {}.
BaseDone(u, ok) ==
    /\ stage[u] = "base"
    /\ IF ok
       THEN /\ stage' = [stage EXCEPT ![u] = "inner"]
            /\ waiting' = [waiting EXCEPT ![u] = NumRequests]
       ELSE /\ stage' = [stage EXCEPT ![u] = "done"]
            /\ UNCHANGED waiting
    /\ UNCHANGED <<tokens, current_index, fetchvars, tmvars, loadvars,
                   gathervars, workers, flying, osf, batch, oshwa>>

\* a free thread of the inner executor takes a submitted future
InnerStart(u) ==
    /\ stage[u] = "inner"
    /\ waiting[u] > 0
    /\ flying[u] < inner_workers(NumRequests)
    /\ waiting' = [waiting EXCEPT ![u] = @ - 1]
    /\ flying' = [flying EXCEPT ![u] = @ + 1]
    /\ UNCHANGED <<tokens, current_index, fetchvars, tmvars, loadvars,
                   gathervars, workers, stage, osf, batch, oshwa>>

\* a call of _fetch_endpoint_with_retry returns and frees its thread
InnerDone(u) ==
    /\ stage[u] = "inner"
    /\ flying[u] > 0
    /\ flying' = [flying EXCEPT ![u] = @ - 1]
    /\ UNCHANGED <<tokens, current_index, fetchvars, tmvars, loadvars,
                   gathervars, workers, stage, waiting, osf, batch, oshwa>>

\* every future of the unit is done: fetch_repository_data returns
Finish(u) ==
    /\ stage[u] = "inner"
    /\ waiting[u] = 0
    /\ flying[u] = 0
    /\ stage' = [stage EXCEPT ![u] = "done"]
    /\ UNCHANGED <<tokens, current_index, fetchvars, tmvars, loadvars,
                   gathervars, workers, waiting, flying, osf, batch, oshwa>>

ExecNext ==
    \/ \E u \in Units : Run(u)
    \/ \E u \in Units : \E ok \in BOOLEAN : BaseDone(u, ok)
    \/ \E u \in Units : InnerStart(u)
    \/ \E u \in Units : InnerDone(u)
    \/ \E u \in Units : Finish(u)

ExecSpec == ExecInit /\ [][ExecNext]_vars

\* ============================================================== OSFSpec
\* OSFMetadataFetcher.process_urls over a list of NumUrls URLs; URL j is
\* the integer j.  osf.results is the list results, osf.waits the
\* arguments of time.sleep in call order, osf.last the HTTP status the
\* last fetch_project_metadata met, osf.checkpoint the length of the last
\* checkpoint file written.
osf_max_retries == 3
osf_delay == 2
osf_checkpoint_every == 10

OSFStatuses == {200, 429, 500}

\* process_project: the whole body is inside try, and its
\* `except Exception` turns whatever was raised (raise_for_status on a
\* 429 included) into the record {'url', 'error'}.  error is 0 in a data
\* record.
process_project(url, st) ==
    [raised |-> FALSE, error |-> 0,
     value |-> [url |-> url, error |-> IF st = 200 THEN 0 ELSE st]]

\* wait_time = (attempt + 1) * 30
wait_time(a) == (a + 1) * 30

\* what follows the retry loop in one iteration of the for loop: the
\* sleep between URLs and the checkpoint
AfterUrl(i, res, ws, cp) ==
    [waits |-> IF i < NumUrls THEN Append(ws, osf_delay) ELSE ws,
     checkpoint |-> IF i % osf_checkpoint_every = 0 THEN Len(res) ELSE cp]

OSFInit ==
    /\ FetchRest
    /\ client = "github"
    /\ Len(tokens) = 1
    /\ ExecRest
    /\ OSFRest
    /\ BatchRest
    /\ OshwaRest

\* results = []; the for loop is entered
OSFStart ==
    /\ osf.pc = "idle"
    /\ osf' = [osf EXCEPT !.pc = "try", !.i = 1, !.attempt = 0]
    /\ UNCHANGED <<client, tokens, current_index, fetchvars, tmvars,
                   loadvars, gathervars, execvars, batch, oshwa>>

\* One pass of `for attempt in range(max_retries)` for URL osf.i, st the
\* status its request meets; when the pass ends in break the rest of the
\* for-loop body runs too.
Attempt(st) ==
    /\ osf.pc = "try"
    /\ LET r == process_project(osf.i, st)
           retry == r.raised /\ r.error = 429
                             /\ osf.attempt < osf_max_retries - 1
           res == IF r.raised
                  THEN Append(osf.results, [url |-> osf.i, error |-> r.error])
                  ELSE Append(osf.results, r.value)
           after == AfterUrl(osf.i, res, osf.waits, osf.checkpoint)
       IN  IF retry
           THEN osf' = [osf EXCEPT !.attempt = @ + 1, !.last = st,
                                   !.waits = Append(@, wait_time(osf.attempt))]
           ELSE osf' = [osf EXCEPT !.results = res, !.last = st,
                                   !.waits = after.waits,
                                   !.checkpoint = after.checkpoint,
                                   !.attempt = 0,
                                   !.i = IF osf.i < NumUrls THEN @ + 1 ELSE @,
                                   !.pc = IF osf.i < NumUrls
                                          THEN "try" ELSE "done"]
    /\ UNCHANGED <<client, tokens, current_index, fetchvars, tmvars,
                   loadvars, gathervars, execvars, batch, oshwa>>

\* return results
OSFReturn ==
    /\ osf.pc = "done"
    /\ osf' = [osf EXCEPT !.pc = "returned"]
    /\ UNCHANGED <<client, tokens, current_index, fetchvars, tmvars,
                   loadvars, gathervars, execvars, batch, oshwa>>

OSFNext ==
    \/ OSFStart
    \/ \E st \in OSFStatuses : Attempt(st)
    \/ OSFReturn

OSFSpec == OSFInit /\ [][OSFNext]_vars

\* ============================================================ BatchSpec
\* CleanOSFMetadataFetcher.process_urls_batch over NumUrls URLs, run once,
\* possibly killed between two iterations of its loop and then run again
\* with start_index = the index of the first URL not yet processed.
\* URL j (0-based, as urls[j]) is the integer j.  batch.file is the
\* content of osf_metadata_progress.json and batch.saved tells whether
\* the file exists; batch.i is the loop index, batch.run the run number.
progress_every == 5

BatchOutcomes == {0, 1}

\* process_project of this class: data record (error 0) or error record;
\* it catches every Exception itself
batch_process_project(url, o) == [url |-> url, error |-> o]

\* `if start_index > 0: try: results = json.load(f) except: results = []`
load_progress(k, saved, file) ==
    IF k > 0 /\ saved THEN file ELSE <<>>

BatchInit ==
    /\ FetchRest
    /\ client = "github"
    /\ Len(tokens) = 1
    /\ ExecRest
    /\ OSFRest
    /\ BatchRest
    /\ OshwaRest

\* process_urls_batch(urls) with the default start_index = 0
BatchStart ==
    /\ batch.pc = "idle"
    /\ batch' = [batch EXCEPT !.pc = "loop", !.run = 1, !.start_index = 0,
                              !.i = 0,
                              !.results = load_progress(0, batch.saved,
                                                        batch.file)]
    /\ UNCHANGED <<client, tokens, current_index, fetchvars, tmvars,
                   loadvars, gathervars, execvars, osf, oshwa>>

\* one iteration of `for i in range(start_index, len(urls))`: process,
\* append, save the progress file when (i + 1) % 5 == 0 (the sleep that
\* follows changes nothing)
BatchStep(o) ==
    /\ batch.pc = "loop"
    /\ batch.i < NumUrls
    /\ LET res == Append(batch.results, batch_process_project(batch.i, o))
           save == (batch.i + 1) % progress_every = 0
       IN  batch' = [batch EXCEPT !.results = res,
                                  !.i = @ + 1,
                                  !.saved = IF save THEN TRUE ELSE @,
                                  !.file = IF save THEN res ELSE @]
    /\ UNCHANGED <<client, tokens, current_index, fetchvars, tmvars,
                   loadvars, gathervars, execvars, osf, oshwa>>

\* the first run is killed before an iteration: its list is lost, the
\* progress file stays
Interrupt ==
    /\ batch.pc = "loop"
    /\ batch.run = 1
    /\ batch.i < NumUrls
    /\ batch' = [batch EXCEPT !.pc = "interrupted", !.results = <<>>]
    /\ UNCHANGED <<client, tokens, current_index, fetchvars, tmvars,
                   loadvars, gathervars, execvars, osf, oshwa>>

\* process_urls_batch(urls, start_index = k), k the first URL not yet
\* processed
Resume ==
    /\ batch.pc = "interrupted"
    /\ batch' = [batch EXCEPT !.pc = "loop", !.run = 2,
                              !.start_index = batch.i,
                              !.results = load_progress(batch.i, batch.saved,
                                                        batch.file)]
    /\ UNCHANGED <<client, tokens, current_index, fetchvars, tmvars,
                   loadvars, gathervars, execvars, osf, oshwa>>

\* return results
BatchReturn ==
    /\ batch.pc = "loop"
    /\ batch.i = NumUrls
    /\ batch' = [batch EXCEPT !.pc = "returned"]
    /\ UNCHANGED <<client, tokens, current_index, fetchvars, tmvars,
                   loadvars, gathervars, execvars, osf, oshwa>>

BatchNext ==
    \/ BatchStart
    \/ \E o \in BatchOutcomes : BatchStep(o)
    \/ Interrupt
    \/ Resume
    \/ BatchReturn

BatchSpec == BatchInit /\ [][BatchNext]_vars

\* ============================================================ OshwaSpec
\* get_all_oshwa_projects.  A page is recorded as [offset, n]: the n
\* projects the server returned for that offset; oshwa.all_projects is
\* the list of pages extended so far.  oshwa.status, items and total are
\* the last response (status code, len(items), total).  An honest server
\* holds oshwa.held projects, reports that total and serves full pages;
\* any other server answers anything.  The loop is cut after MaxPages
\* requests.
limit == 1000

Sizes == {k * limit + d : k \in 0..(MaxPages - 1), d \in {0, 1}}
             \cup {MaxPages * limit}
PageSizes == {0, 1, limit - 1, limit}
OshwaStatuses == {200, 500}

RECURSIVE TotalItems(_)
\* len(all_projects)
TotalItems(ps) ==
    IF ps = <<>> THEN 0 ELSE Head(ps).n + TotalItems(Tail(ps))

\* what an honest server holding T projects returns for an offset
serve(offset, T) == Min(limit, IF T > offset THEN T - offset ELSE 0)

\* variant: the offset is advanced as a page number
next_offset_ByOne(offset) == offset + 1

\* offset += limit
next_offset(offset) == offset + limit

\* if len(all_projects) >= total or len(projects) < limit: break
Exhausted(count, total, n) == count >= total \/ n < limit

OshwaInit ==
    /\ FetchRest
    /\ client = "github"
    /\ Len(tokens) = 1
    /\ ExecRest
    /\ OSFRest
    /\ BatchRest
    /\ \E h \in BOOLEAN : \E T \in Sizes :
           /\ ~h => T = 0
           /\ oshwa = [pc |-> "idle", offset |-> 0, all_projects |-> <<>>,
                       requests |-> 0, status |-> 0, items |-> 0,
                       total |-> 0, honest |-> h, held |-> T]

\* all_projects = []; offset = 0; the while loop is entered
OshwaStart ==
    /\ oshwa.pc = "idle"
    /\ oshwa' = [oshwa EXCEPT !.pc = "loop", !.offset = 0,
                              !.all_projects = <<>>]
    /\ UNCHANGED <<client, tokens, current_index, fetchvars, tmvars,
                   loadvars, gathervars, execvars, osf, batch>>

\* one iteration of `while True`: the GET with the current offset is
\* answered with status st, n items and the reported total
FetchPage(st, n, total) ==
    /\ oshwa.pc = "loop"
    /\ oshwa.requests < MaxPages
    /\ oshwa.honest => /\ st = 200
                       /\ n = serve(oshwa.offset, oshwa.held)
                       /\ total = oshwa.held
    /\ LET all == IF st = 200 /\ n > 0
                  THEN Append(oshwa.all_projects,
                              [offset |-> oshwa.offset, n |-> n])
                  ELSE oshwa.all_projects
           stop == \/ st # 200
                   \/ n = 0
                   \/ Exhausted(TotalItems(all), total, n)
       IN  oshwa' = [oshwa EXCEPT !.requests = @ + 1,
                                  !.status = st, !.items = n,
                                  !.total = total,
                                  !.all_projects = all,
                                  !.offset = IF stop THEN @
                                             ELSE next_offset(@),
                                  !.pc = IF stop THEN "done" ELSE "loop"]
    /\ UNCHANGED <<client, tokens, current_index, fetchvars, tmvars,
                   loadvars, gathervars, execvars, osf, batch>>

\* return all_projects
OshwaReturn ==
    /\ oshwa.pc = "done"
    /\ oshwa' = [oshwa EXCEPT !.pc = "returned"]
    /\ UNCHANGED <<client, tokens, current_index, fetchvars, tmvars,
                   loadvars, gathervars, execvars, osf, batch>>

OshwaNext ==
    \/ OshwaStart
    \/ \E st \in OshwaStatuses : \E n \in PageSizes : \E total \in Sizes :
          FetchPage(st, n, total)
    \/ OshwaReturn

OshwaSpec == OshwaInit /\ [][OshwaNext]_vars

\* the same with the function's thread scheduled and every GET answered
FairOshwaSpec == OshwaSpec /\ WF_vars(OshwaNext)

\* ================================================================ claims
InCall(u) == pc[u] \in {"top", "get", "rotate", "cooldown", "backoff", "returning"}
Stepped(u) == pc'[u] # pc[u]
PoolSize == Len(tokens)

\* Progress measure of one call: the iterations left, then the position
\* inside the iteration.
Rank(loc) ==
    CASE loc = "top" -> 3
      [] loc = "get" -> 2
      [] loc \in {"rotate", "cooldown", "backoff"} -> 1
      [] OTHER -> 0
Measure(a, loc) == 4 * (max_retries - a) + Rank(loc)

\* C1: whatever the responses and the pool size, one call of
\* _fetch_endpoint_with_retry issues at most max_retries GETs, and every
\* step it takes before its return statement strictly decreases a measure
\* bounded below, so the call cannot loop forever.
C1_BoundedAttempts ==
    [][\A u \in Units :
          /\ requests'[u] <= max_retries
          /\ (InCall(u) /\ Stepped(u) /\ pc[u] # "returning")
                => /\ pc'[u] \in {"top", "get", "rotate", "cooldown", "backoff", "returning"}
                   /\ Measure(attempt'[u], pc'[u]) < Measure(attempt[u], pc[u])
                   /\ Measure(attempt'[u], pc'[u]) >= 0]_vars

\* a call on a pool of one that used all its attempts and is returning
C1_Witness ==
    \E u \in Units : /\ PoolSize = 1
                     /\ pc[u] = "returning"
                     /\ requests[u] = max_retries
                     /\ rotations[u] > 0

\* C2: a 404 makes the call return None at once: it is at its return
\* statement with None as soon as the 404 is received, having rotated and
\* slept no more than before, and it issues no request afterwards.
C2_NotFoundReturnsAtOnce ==
    [][\A u \in Units :
          response'[u].status = 404 =>
              /\ pc'[u] = "returning"
              /\ retval'[u] = "none"
              /\ rotations'[u] = rotations[u]
              /\ sleeps'[u] = sleeps[u]
              /\ (pc[u] = "returning" => requests'[u] = requests[u])
              /\ (pc[u] = "get" => /\ requests'[u] = requests[u] + 1
                                   /\ (Stepped(u) => current_index' = current_index))]_vars

\* a 404 answered at the second attempt, after one retry
C2_Witness ==
    \E u \in Units : /\ response[u].status = 404
                     /\ pc[u] = "returning"
                     /\ requests[u] = 2

\* C3: in the GitHub client a 401 is followed by one rotate_token, which
\* moves the cursor one step round a pool of more than one, and, when the
\* attempt was not the last, by a new session and a new GET, with no sleep
\* anywhere in between.
C3_AuthFailureRotatesAndRetries ==
    [][\A u \in Units :
          (client = "github" /\ response[u].status = 401 /\ Stepped(u)) =>
              /\ (pc[u] # "returning" => sleeps'[u] = sleeps[u])
              /\ CASE pc[u] = "rotate" ->
                        /\ rotations'[u] = rotations[u] + 1
                        /\ (PoolSize > 1 => current_index' = (current_index + 1) % PoolSize)
                        /\ (attempt[u] < max_retries - 1 => pc'[u] = "top")
                   [] pc[u] = "top" ->
                        /\ pc'[u] = "get"
                        /\ session'[u] = tokens[current_index + 1]
                        /\ rotations'[u] = rotations[u]
                   [] pc[u] = "get" ->
                        /\ requests'[u] = requests[u] + 1
                        /\ rotations'[u] = rotations[u]
                   [] pc[u] = "returning" -> attempt[u] = max_retries
                   [] OTHER -> FALSE]_vars

\* the request re-issued after a 401 on a pool of two: the cursor has moved
\* off the credential the call started with and nothing was slept
C3_Witness ==
    \E u \in Units : /\ client = "github"
                     /\ PoolSize > 1
                     /\ response[u].status = 401
                     /\ pc[u] = "get"
                     /\ rotations[u] = 1
                     /\ sleeps[u] = <<>>
                     /\ session[u] = 2

\* a 403 whose X-RateLimit-Remaining header is present and zero
ZeroQuota(r) == r.status = 403 /\ r.remaining = 0
\* a 403 with quota left whose body does not mention the rate limit
PlainForbidden(r) == r.status = 403 /\ r.remaining > 0 /\ ~r.text

\* C4 as stated: in the GitHub client every zero-quota 403 moves the cursor
\* to another credential and is followed by a retry, and a 403 with quota
\* left and no mention of the rate limit is abandoned without rotation.
C4_Original ==
    [][\A u \in Units :
          client = "github" =>
              /\ (ZeroQuota(response[u]) /\ pc[u] = "rotate" /\ Stepped(u))
                    => /\ current_index' # current_index
                       /\ pc'[u] = "top"
              /\ PlainForbidden(response'[u])
                    => /\ pc'[u] = "returning"
                       /\ rotations'[u] = rotations[u]]_vars

\* C4 (amended): in the GitHub client a zero-quota 403 is followed by one
\* rotate_token, which moves the cursor to the next credential when the
\* pool holds more than one and changes nothing otherwise, and then, when
\* the attempt was not the last, by a retry of the same endpoint; after the
\* last attempt the call returns None.  A 403 with quota left and no
\* mention of the rate limit is abandoned at once without rotation.
C4_ZeroQuotaRotates ==
    [][\A u \in Units :
          client = "github" =>
              /\ (ZeroQuota(response[u]) /\ Stepped(u)) =>
                    CASE pc[u] = "rotate" ->
                            /\ rotations'[u] = rotations[u] + 1
                            /\ current_index' = IF PoolSize > 1
                                                THEN (current_index + 1) % PoolSize
                                                ELSE current_index
                            /\ pc'[u] = IF attempt[u] < max_retries - 1
                                        THEN "top" ELSE "returning"
                            /\ (pc'[u] = "returning" => retval'[u] = "none")
                      [] pc[u] = "top" -> pc'[u] = "get"
                      [] pc[u] = "get" -> requests'[u] = requests[u] + 1
                      [] pc[u] = "returning" -> attempt[u] = max_retries
                      [] OTHER -> FALSE
              /\ PlainForbidden(response'[u])
                    => /\ pc'[u] = "returning"
                       /\ retval'[u] = "none"
                       /\ rotations'[u] = rotations[u]
                       /\ (pc[u] = "returning" => requests'[u] = requests[u])]_vars

\* the retry issued after a zero-quota 403 moved the cursor of a pool of two
C4_Witness ==
    \E u \in Units : /\ client = "github"
                     /\ PoolSize > 1
                     /\ ZeroQuota(response[u])
                     /\ pc[u] = "get"
                     /\ rotations[u] = 1
                     /\ current_index = 1

\* C5 as stated: in the GitLab client every 429 is followed by a sleep of
\* 60 seconds and then by a retry, the cursor staying where it is.
C5_Original ==
    [][\A u \in Units :
          (client = "gitlab" /\ response[u].status = 429
              /\ pc[u] = "cooldown" /\ Stepped(u))
             => /\ sleeps'[u] = Append(sleeps[u], 60)
                /\ pc'[u] = "top"
                /\ current_index' = current_index]_vars

\* C5 (amended): in the GitLab client a 429 is followed by a sleep of 60
\* seconds and then, when the attempt was not the last, by a retry of the
\* same endpoint; after the cooldown of the last attempt the call returns
\* None.  The cursor is left unchanged by this path.
C5_CooldownThenRetry ==
    [][\A u \in Units :
          (client = "gitlab" /\ response[u].status = 429 /\ Stepped(u)) =>
              /\ current_index' = current_index
              /\ rotations'[u] = 0
              /\ CASE pc[u] = "cooldown" ->
                        /\ sleeps'[u] = Append(sleeps[u], 60)
                        /\ pc'[u] = IF attempt[u] < max_retries - 1
                                    THEN "top" ELSE "returning"
                        /\ (pc'[u] = "returning" => retval'[u] = "none")
                   [] pc[u] = "top" -> pc'[u] = "get" /\ sleeps'[u] = sleeps[u]
                   [] pc[u] = "get" -> /\ requests'[u] = requests[u] + 1
                                       /\ sleeps'[u] = sleeps[u]
                   [] pc[u] = "returning" -> attempt[u] = max_retries
                   [] OTHER -> FALSE]_vars

\* the retry issued after one cooldown
C5_Witness ==
    \E u \in Units : /\ client = "gitlab"
                     /\ response[u].status = 429
                     /\ pc[u] = "get"
                     /\ sleeps[u] = <<60>>
                     /\ current_index = 0

\* a status that is neither 200, 404 nor a rate-limit or auth status
OtherStatus(r) == r.status > 0 /\ r.status \notin {200, 404, 401, 403, 429}

\* C6: a response with any other status makes the call return None at the
\* attempt that received it: no rotation, no sleep and no further request.
C6_OtherStatusAbandoned ==
    [][\A u \in Units :
          OtherStatus(response'[u]) =>
              /\ pc'[u] = "returning"
              /\ retval'[u] = "none"
              /\ rotations'[u] = rotations[u]
              /\ sleeps'[u] = sleeps[u]
              /\ (pc[u] = "returning" => requests'[u] = requests[u])
              /\ (pc[u] = "get" => /\ requests'[u] = requests[u] + 1
                                   /\ attempt'[u] = attempt[u]
                                   /\ (Stepped(u) => current_index' = current_index))]_vars

\* a 500 received at the first attempt: the call is returning after one GET
C6_Witness ==
    \E u \in Units : /\ response[u].status = 500
                     /\ pc[u] = "returning"
                     /\ requests[u] = 1
                     /\ attempt[u] = 0

\* C7: a network exception at attempt a is followed by a sleep of 2^a
\* seconds and a retry exactly when a < max_retries - 1; when every request
\* fails this way max_retries requests are issued, the sleeps are
\* 1, 2, ..., 2^(max_retries - 2) and nothing is slept after the last one.
C7_ExponentialBackoff ==
    \A u \in Units :
        /\ pc[u] = "backoff"
              => response[u] = Exception /\ attempt[u] < max_retries - 1
        /\ (response[u] = Exception /\ pc[u] \in {"top", "get"})
              => /\ attempt[u] >= 1
                 /\ sleeps[u] # <<>>
                 /\ sleeps[u][Len(sleeps[u])] = 2 ^ (attempt[u] - 1)
        /\ (response[u] = Exception /\ pc[u] = "returning")
              => /\ attempt[u] = max_retries
                 /\ requests[u] = max_retries
                 /\ retval[u] = "none"
        /\ errors[u] = max_retries
              => /\ pc[u] = "returning"
                 /\ requests[u] = max_retries
                 /\ sleeps[u] = [i \in 1..(max_retries - 1) |-> 2 ^ (i - 1)]

\* a call all of whose requests raised
C7_Witness ==
    \E u \in Units : /\ errors[u] = max_retries
                     /\ pc[u] = "returning"
                     /\ Len(sleeps[u]) = max_retries - 1

\* attempts of the running call that ended in a recoverable condition
Recovered(e, r, s) == e + r + Cardinality({i \in DOMAIN s : s[i] = COOLDOWN})

\* C8: when every attempt of a call ended in a recoverable condition the
\* call is at its return statement with None, and its caller receives None:
\* nothing is raised.
C8_ExhaustionReturnsNone ==
    [][\A u \in Units :
          /\ Recovered(errors'[u], rotations'[u], sleeps'[u]) = max_retries
                => pc'[u] = "returning" /\ retval'[u] = "none"
          /\ (Recovered(errors[u], rotations[u], sleeps[u]) = max_retries /\ Stepped(u))
                => /\ base'[u] = "none"
                   /\ future'[u] # "raised"
                   /\ pc'[u] \in {"finished", "secondary"}]_vars

\* a GitHub call that met an exception, a 401 and a rate-limit 403
C8_Witness ==
    \E u \in Units : /\ client = "github"
                     /\ errors[u] = 1
                     /\ rotations[u] = 2
                     /\ pc[u] = "returning"
                     /\ retval[u] = "none"

\* the rate-limit response of each client
RateLimited(c, r) ==
    IF c = "github" THEN ZeroQuota(r) /\ PoolSize > 1 ELSE r.status = 429

\* C9: every rate-limit response (zero-quota 403 on a GitHub pool of more
\* than one, 429 on GitLab) is followed by exactly one rotation (GitHub) or
\* one 60-second sleep (GitLab) and then by exactly one more request, until
\* max_retries requests have been made, after which the call returns None.
C9_OneRotationOneRetry ==
    [][\A u \in Units :
          (RateLimited(client, response[u]) /\ Stepped(u)) =>
              CASE pc[u] \in {"rotate", "cooldown"} ->
                      /\ IF client = "github"
                         THEN /\ pc[u] = "rotate"
                              /\ rotations'[u] = rotations[u] + 1
                              /\ current_index' = (current_index + 1) % PoolSize
                              /\ sleeps'[u] = sleeps[u]
                         ELSE /\ pc[u] = "cooldown"
                              /\ sleeps'[u] = Append(sleeps[u], 60)
                              /\ rotations'[u] = rotations[u]
                              /\ current_index' = current_index
                      /\ requests'[u] = requests[u]
                      /\ IF requests[u] < max_retries
                         THEN pc'[u] = "top"
                         ELSE pc'[u] = "returning" /\ retval'[u] = "none"
                [] pc[u] = "top" ->
                      /\ pc'[u] = "get"
                      /\ requests'[u] = requests[u]
                      /\ rotations'[u] = rotations[u]
                      /\ sleeps'[u] = sleeps[u]
                [] pc[u] = "get" ->
                      /\ requests'[u] = requests[u] + 1
                      /\ rotations'[u] = rotations[u]
                      /\ sleeps'[u] = sleeps[u]
                [] pc[u] = "returning" ->
                      /\ requests[u] = max_retries
                      /\ retval[u] = "none"
                [] OTHER -> FALSE]_vars

\* a GitHub call on a pool of two that was rate limited at every attempt
C9_Witness ==
    \E u \in Units : /\ client = "github"
                     /\ PoolSize > 1
                     /\ ZeroQuota(response[u])
                     /\ pc[u] = "returning"
                     /\ requests[u] = max_retries
                     /\ rotations[u] = max_retries

Count(s, u) == Cardinality({i \in DOMAIN s : s[i] = u})

\* C10: every unit is accounted for exactly once, in results or in
\* failed_repos, as soon as it is collected and not before; a unit whose
\* future raised or carries no named repository record is in failed_repos
\* and a unit with a named record is in results, whatever the other units
\* did; when process_repositories returns the two lists together hold as
\* many entries as the input.
C10_EveryUnitAccountedOnce ==
    /\ \A u \in Units :
          /\ Count(results, u) + Count(failed_repos, u)
                = (IF pc[u] = "collected" THEN 1 ELSE 0)
          /\ pc[u] = "collected" =>
                /\ future[u] \in {"raised", "empty", "unnamed"} => Count(failed_repos, u) = 1
                /\ future[u] = "named" => Count(results, u) = 1
                /\ future[u] # "pending"
    /\ mainpc = "returned" =>
          /\ Len(results) + Len(failed_repos) = NumUnits
          /\ \A u \in Units : pc[u] = "collected"

\* a returned batch with one success and one unit whose future raised
C10_Witness ==
    /\ mainpc = "returned"
    /\ Len(results) >= 1
    /\ \E u \in Units : future[u] = "raised" /\ Count(failed_repos, u) = 1

\* C11: after construction, whatever the interleaving of the steps of
\* get_token and rotate_token, the cursor is an index of the pool and every
\* token get_token has returned is an element of the pool.
C11_CursorInRange ==
    /\ Len(tokens) >= 1
    /\ current_index \in 0..(Len(tokens) - 1)
    /\ \A t \in Threads :
          tret[t] # NoToken => \E i \in 1..Len(tokens) : tokens[i] = tret[t]

\* get_token returns the first token again after the cursor went round a
\* pool of more than one, while another thread waits to rotate
C11_Witness ==
    \E t, t2 \in Threads :
        /\ PoolSize > 1
        /\ Len(cursors) > PoolSize
        /\ current_index = 0
        /\ tpc[t] = "g_release"
        /\ tret[t] = tokens[1]
        /\ tpc[t2] = "r_acquire"

\* C12: on a pool of N > 1 every rotation takes the cursor from its value
\* c to (c + 1) mod N, and the value after N rotations is the value it
\* started from, whichever value that was.
C12_Circular ==
    PoolSize > 1 =>
        /\ \A i \in 1..(Len(cursors) - 1) :
              cursors[i + 1] = (cursors[i] + 1) % PoolSize
        /\ \A i \in 1..(Len(cursors) - PoolSize) :
              cursors[i + PoolSize] = cursors[i]

\* N rotations that started from cursor 1 have brought it back to 1
C12_Witness ==
    /\ PoolSize > 1
    /\ Len(cursors) >= PoolSize + 2
    /\ cursors[2] = 1
    /\ cursors[2 + PoolSize] = 1

\* threads inside the with block of get_token or rotate_token
InLock == {t \in Threads : tpc[t] \in {"g_read", "g_release", "r_read", "r_write", "r_release"}}
\* rotate_token calls that have started and not yet written the cursor
Unwritten == {t \in Threads : tpc[t] \in {"r_acquire", "r_read", "r_write"}}

\* C14: on a pool of N > 1 no rotation is lost: the cursor is the initial
\* cursor plus the number of rotate_token calls that have written it,
\* mod N, so that once k concurrent calls are over it is (initial + k)
\* mod N; and at most one thread is inside a with block, so that get_token
\* never reads the cursor between the read and the write of a rotation.
C14_NoLostRotation ==
    /\ Cardinality(InLock) <= 1
    /\ \A t \in InLock : lock = t
    /\ PoolSize > 1 =>
          current_index = (rotcalls - Cardinality(Unwritten)) % PoolSize

\* a rotation about to write while another rotation waits for the lock
C14_Witness ==
    \E t, t2 \in Threads :
        /\ PoolSize > 1
        /\ tpc[t] = "r_write"
        /\ tpc[t2] = "r_acquire"
        /\ rotcalls >= 3

\* C13: with a pool of exactly one credential a rotation changes nothing
\* and fails nowhere: the cursor is 0 in every state, every session carries
\* the one credential, the call goes on to its next attempt after the
\* rotation, and a GitHub call that meets a 401 or a rate-limit 403 at
\* every attempt returns None after max_retries requests.
C13_SingleCredential ==
    [][PoolSize = 1 =>
          /\ current_index = 0
          /\ current_index' = 0
          /\ \A u \in Units :
                /\ session'[u] \in {NoToken, tokens[1]}
                /\ requests'[u] <= max_retries
                /\ pc'[u] \in {"queued", "top", "get", "rotate", "cooldown", "backoff",
                               "returning", "secondary", "finished", "collected"}
                /\ (pc[u] = "rotate" /\ Stepped(u))
                      => /\ rotations'[u] = rotations[u] + 1
                         /\ pc'[u] = IF attempt[u] < max_retries - 1
                                     THEN "top" ELSE "returning"
                /\ rotations'[u] = max_retries
                      => /\ pc'[u] = "returning"
                         /\ requests'[u] = max_retries
                         /\ retval'[u] = "none"]_vars

\* a GitHub call on a pool of one that rotated at each of its attempts
C13_Witness ==
    \E u \in Units : /\ client = "github"
                     /\ PoolSize = 1
                     /\ rotations[u] = max_retries
                     /\ current_index = 0
                     /\ response[u].status \in {401, 403}

\* tokens of the file that are in the pool
Pooled == {tokens[i] : i \in 1..Len(tokens)}

\* entry i is a token whose expiration date lies before the day of loading
Passed(i) ==
    /\ source.entries[i].shape = "token"
    /\ source.entries[i].expiration.type # "none"
    /\ source.entries[i].expiration.day < Today

\* C15: construction either yields a pool of at least one token or fails:
\* a constructed manager never has an empty pool, a file that yields no
\* usable token fails, and no file with no GITHUB_TOKEN fails.
C15_PoolNeverEmpty ==
    /\ built = "ok" => Len(tokens) >= 1
    /\ built # "no" =>
          /\ (source.kind # "none" /\ load_tokens(source) = <<>>) => built = "error"
          /\ (source.kind = "none" /\ source.env = 0) => built = "error"
          /\ built = "error" => tokens = <<>>

\* a YAML file whose only token is expired was loaded and refused
C15_Witness ==
    /\ built = "error"
    /\ source.kind = "yaml"
    /\ \E i \in 1..Len(source.entries) : Passed(i)

\* C16: loading a YAML file leaves out every token whose expiration date
\* has passed and takes every token without one, so no request is sent
\* with a token that was expired at load time.
C16_ExpiredExcluded ==
    (built = "ok" /\ source.kind = "yaml") =>
        /\ \A i \in 1..Len(source.entries) : Passed(i) => i \notin Pooled
        /\ (\A i \in 1..Len(source.entries) : source.entries[i].shape # "notmap")
              => \A i \in 1..Len(source.entries) :
                    (/\ source.entries[i].shape = "token"
                     /\ source.entries[i].expiration.type = "none") => i \in Pooled
        /\ \A t \in Threads :
              tret[t] \in 1..Len(source.entries) => ~Passed(tret[t])

AbsentUnits == {u \in Units : base[u] = "absent"}

C20_GitLabAuthFailureRotates ==
    [][\A u \in Units :
          (client = "gitlab" /\ Stepped(u)) =>
              /\ (pc[u] = "get" /\ response'[u].status = 401) => pc'[u] = "rotate"
              /\ (pc[u] = "rotate" /\ response[u].status = 401) =>
                    /\ rotations'[u] = rotations[u] + 1
                    /\ (PoolSize > 1 => current_index' = (current_index + 1) % PoolSize)
                    /\ (attempt[u] < max_retries - 1 => pc'[u] = "top")]_vars

\* C19: in whatever order the futures complete, the i-th entry of the
\* results of the GitHub process_repositories carries the owner, the name
\* and the projectID of the input entry its future was submitted for, and
\* the results dict of fetch_repository_data holds under each endpoint what
\* the future of that very endpoint produced: the payload of that endpoint
\* of that unit, or None.
C19_AttributedToOwnUnit ==
    /\ Len(records) = Len(results)
    /\ \A i \in 1..Len(records) :
          /\ records[i].owner = repositories[results[i]].owner
          /\ records[i].name = repositories[results[i]].repo
          /\ records[i].projectID = repositories[results[i]].projectID
    /\ \A u \in Units : \A e \in Endpoints :
          /\ raw[u][e] \in {Unset, NonePayload, Payload(u, e)}
          /\ inner[u][e].seen =>
                raw[u][e] = IF inner[u][e].result = Raised THEN NonePayload
                            ELSE inner[u][e].result

\* the second unit was collected first while the first unit is still
\* gathering, its second endpoint stored before its first
C19_Witness ==
    /\ NumUnits >= 2
    /\ NumEndpoints >= 2
    /\ Len(records) = 1
    /\ results[1] = 2
    /\ records[1].projectID = repositories[2].projectID
    /\ pc[1] = "secondary"
    /\ inner[1][2].seen
    /\ ~inner[1][1].seen
    /\ raw[1][2] = Payload(1, 2)

Rotating(r) ==
    \/ r.status = 401
    \/ r.status = 403 /\ (r.remaining \in {0, Absent} \/ r.text)

\* C22: in the GitHub client the pool never changes, and the cursor moves
\* only in the rotation that answers a 401 or a rate-limit 403, one step
\* round the pool per such response (by the call on the base endpoint or
\* by a call on a secondary endpoint); the step that receives a response or
\* an exception, whatever it is, and every other step leave the cursor
\* where it was.
C22_CursorFrame ==
    [][client = "github" =>
          /\ tokens' = tokens
          /\ current_index' # current_index =>
                /\ current_index' = (current_index + 1) % PoolSize
                /\ \/ \E u \in Units : /\ pc[u] = "rotate"
                                      /\ Stepped(u)
                                      /\ rotations'[u] = rotations[u] + 1
                   \/ (pc' = pc /\ \E u \in Units : pc[u] = "secondary")
          /\ \A u \in Units :
                /\ (pc[u] = "rotate" /\ Stepped(u)) =>
                      /\ Rotating(response[u])
                      /\ current_index' = (current_index + 1) % PoolSize
                /\ (pc'[u] = "rotate" /\ Stepped(u)) => Rotating(response'[u])
                /\ (pc[u] # "rotate" /\ Stepped(u)) => current_index' = current_index]_vars

\* a pool of two whose cursor a rotation has moved, while the other unit
\* has been answered with a status that does not rotate
C22_Witness ==
    \E u, v \in Units :
        /\ client = "github"
        /\ PoolSize > 1
        /\ current_index = 1
        /\ rotations[u] = 1
        /\ response[u].status = 403
        /\ response[v].status = 500
        /\ rotations[v] = 0

\* C23: a record of the GitHub client that process_repositories will count
\* as a success is built, when _structure_repository_data runs, from the
\* payload the base endpoint returned with status 200: results[base_url]
\* then holds that payload and not None.
C23_SuccessBuiltFromBasePayload ==
    [][\A u \in Units :
          (/\ client = "github"
           /\ pc[u] = "secondary"
           /\ pc'[u] = "finished"
           /\ Succeeded(future'[u])) => raw[u][1] = Payload(u, 1)]_vars

\* the inner executor of unit u has been given work, or its results dict
\* holds something
Gathering(u) ==
    \E e \in Endpoints : inner[u][e] # NotSubmitted \/ raw[u][e] # Unset

\* C24: in the GitHub fetch_repository_data nothing is submitted for a unit
\* and nothing is stored for it before its base fetch is back with a
\* non-empty payload; a unit whose base fetch gave no payload ends with the
\* empty result, its executor never given any endpoint.
C24_BaseFirst ==
    \A u \in Units :
        /\ Gathering(u) => pc[u] = "secondary" /\ base[u] \in {"full", "noname"}
        /\ pc[u] = "secondary" => base[u] \in {"full", "noname"}
        /\ (pc[u] # "queued" /\ base[u] \notin {"full", "noname"})
              => /\ future[u] = "empty"
                 /\ pc[u] \in {"finished", "collected"}
                 /\ ~Gathering(u)

\* one unit ended empty-handed and was collected as failed while the other
\* has an endpoint fetched and stored
C24_Witness ==
    \E u, v \in Units :
        /\ future[u] = "empty"
        /\ pc[u] = "collected"
        /\ pc[v] = "secondary"
        /\ \E e \in Endpoints : e > 1 /\ inner[v][e].seen /\ raw[v][e] = Payload(v, e)

\* GETs a unit can have outstanding: the one of its base fetch, or one per
\* running inner future
InFlight(u) ==
    IF stage[u] = "base" THEN 1 ELSE IF stage[u] = "inner" THEN flying[u] ELSE 0

RECURSIVE SumInFlight(_)
SumInFlight(n) == IF n = 0 THEN 0 ELSE InFlight(n) + SumInFlight(n - 1)

\* C25: at most max_workers units are being fetched at any moment, each
\* has at most 5 requests in flight, and all units together never have
\* more than 5 * max_workers.
C25_BoundedConcurrency ==
    /\ Cardinality(Active) <= workers
    /\ workers <= max_workers
    /\ \A u \in Units : InFlight(u) <= 5
    /\ \A u \in Units : stage[u] \notin {"base", "inner"} => flying[u] = 0
    /\ SumInFlight(NumUnits) <= 5 * workers

\* a client with one worker holds one unit back while the unit it runs has
\* five requests in flight and a sixth endpoint waiting
C25_Witness ==
    \E u, v \in Units :
        /\ workers = 1
        /\ stage[u] = "inner"
        /\ flying[u] = 5
        /\ waiting[u] = 1
        /\ stage[v] = "queued"

C27_RetryOn429 ==
    [][(osf.pc = "try" /\ osf'.last = 429 /\ osf' # osf
            /\ osf.attempt < osf_max_retries - 1)
        => /\ osf'.pc = "try"
           /\ osf'.i = osf.i
           /\ osf'.attempt = osf.attempt + 1
           /\ osf'.results = osf.results
           /\ osf'.waits = Append(osf.waits, 30 * (osf.attempt + 1))]_vars

\* C28: the list returned by a resumed run of process_urls_batch holds
\* exactly one result for each URL of the input, in input order.
C28_ResumeComplete ==
    (batch.pc = "returned" /\ batch.run = 2)
        => /\ Len(batch.results) = NumUrls
           /\ \A j \in 1..NumUrls : batch.results[j].url = j - 1

\* C29: get_all_oshwa_projects stops exactly at a non-200 response, an
\* empty page, a page shorter than the limit or the accumulated count
\* reaching the reported total, and otherwise advances offset by the limit
\* of 1000; the list holds the non-empty pages answered 200, each once
\* and in offset order; against a server that reports a consistent total
\* and serves full pages it returns, within held \div limit + 1 requests,
\* with every project held.
C29_Fetched == oshwa'.requests = oshwa.requests + 1
C29_Stops ==
    \/ oshwa'.status # 200
    \/ oshwa'.items = 0
    \/ oshwa'.items < 1000
    \/ TotalItems(oshwa'.all_projects) >= oshwa'.total
C29_Step ==
    C29_Fetched =>
        /\ (oshwa'.pc = "done") <=> C29_Stops
        /\ (oshwa'.pc # "done") =>
               oshwa'.pc = "loop" /\ oshwa'.offset = oshwa.offset + 1000
        /\ oshwa'.all_projects =
               IF oshwa'.status = 200 /\ oshwa'.items > 0
               THEN Append(oshwa.all_projects,
                           [offset |-> oshwa.offset, n |-> oshwa'.items])
               ELSE oshwa.all_projects
C29_InOrder ==
    \A j \in 1..Len(oshwa.all_projects) :
        oshwa.all_projects[j].offset = 1000 * (j - 1)
C29_HonestRun ==
    oshwa.honest =>
        /\ oshwa.requests <= (oshwa.held \div 1000) + 1
        /\ oshwa.pc = "loop" => oshwa.requests < MaxPages
        /\ oshwa.pc \in {"done", "returned"} =>
               TotalItems(oshwa.all_projects) = oshwa.held
C29_Paging ==
    /\ [][C29_Step]_vars
    /\ [](C29_InOrder /\ C29_HonestRun)
    /\ (oshwa.honest => <>(oshwa.pc = "returned"))

\* an honest server's projects were returned from more than one page, the
\* last one short
C29_Witness ==
    /\ oshwa.pc = "returned"
    /\ oshwa.honest
    /\ Len(oshwa.all_projects) >= 2
    /\ oshwa.items < 1000
    /\ TotalItems(oshwa.all_projects) = oshwa.held

====
